---- MODULE Spec2Model ----
(***************************************************************************)
(* Model of the deploy-automated-blueprint templates:                      *)
(*   templates/health/health.py        readiness handler (router)          *)
(*   examples/fastapi-app/app/main.py  readiness handler (example app)     *)
(*   templates/workers/celery.py       Celery worker configuration, tasks  *)
(*                                     and signal handlers                 *)
(* The Celery worker that executes the configuration is the environment:   *)
(* every executor action states the configuration line it interprets.      *)
(***************************************************************************)
EXTENDS Integers, Sequences, FiniteSets, TLC

VARIABLES
    \* ---- readiness handlers -------------------------------------------
    handler,    \* which readiness handler serves the request
    hpc,        \* position inside the handler
    raises,     \* the probes whose call raises during this request
    memPct,     \* psutil.virtual_memory().percent seen by this request
    cpuPct,     \* psutil.cpu_percent(...) seen by this request
    checks,     \* the per-probe entries of the report
    overall,    \* the report's top-level "status"
    errorMsg,   \* the report's top-level "error" (health.py only)
    http,       \* the HTTP status code of the response
    \* ---- task executor (per invocation, indexed by task id) ------------
    status,     \* None, Pending, Running, Retrying, Succeeded, Failed, Expired
    retries,    \* self.request.retries of the invocation's current message
    elapsed,    \* seconds the current attempt has been running
    softSent,   \* the soft time limit was signalled to the current attempt
    remaining,  \* seconds left until the retry message's eta
    delays,     \* the countdown of every retry scheduled so far
    msg,        \* the broker's view: none, queued, unacked, acked
    runs,       \* handler executions started
    raised,     \* handler executions that ended with the handler raising
    lost,       \* handler executions that ended with the worker lost
    result,     \* the stored result or error
    hook,       \* the exceptions on_task_failure was called with
    \* ---- rate limiting ------------------------------------------------
    now,        \* the worker's clock, in seconds
    tokens,     \* the task's token bucket, in sixtieths of a token
    startedAt,  \* the time each invocation was dispatched at, or -1
    submittedAt \* the time the batch was submitted at, or -1

hvars == <<handler, hpc, raises, memPct, cpuPct, checks, overall, errorMsg, http>>

tvars == <<status, retries, elapsed, softSent, remaining, delays, msg, runs,
           raised, lost, result, hook>>

rvars == <<now, tokens, startedAt, submittedAt>>

vars == <<hvars, tvars, rvars>>

(***************************************************************************)
(* Readiness handlers                                                      *)
(***************************************************************************)

TemplateProbes == {"memory", "cpu"}
ExampleProbes == {"database", "redis"}
Probes == TemplateProbes \cup ExampleProbes

\* Utilisation percentages a request may observe, on both sides of the
\* threshold the handler compares with.
Percents == {0, 50, 89, 90, 100}

\* str(e) of the exception a probe raises.
Message(p) == <<"error", p>>

Absent == [status |-> "absent", detail |-> <<>>]
Entry(s) == [status |-> s, detail |-> <<>>]
Failure(p) == [status |-> "unhealthy", detail |-> Message(p)]

NoChecks == [p \in Probes |-> Absent]

\* "healthy" if percent < 90 else "warning"
Threshold(pct) == IF pct < 90 THEN "healthy" ELSE "warning"

\* all(c["status"] == "healthy" for c in checks.values())
AllHealthy(c) == \A p \in Probes : c[p] # Absent => c[p].status = "healthy"

HInit ==
    /\ handler = "none"
    /\ hpc = "idle"
    /\ raises = {}
    /\ memPct = 0
    /\ cpuPct = 0
    /\ checks = NoChecks
    /\ overall = "none"
    /\ errorMsg = <<>>
    /\ http = 0

\* health.py: a request arrives; checks = {"status": "healthy", "checks": {}}
TemplateBegin ==
    /\ hpc = "idle"
    /\ \E r \in SUBSET TemplateProbes, m \in Percents, c \in Percents :
          /\ raises' = r
          /\ memPct' = m
          /\ cpuPct' = c
    /\ handler' = "template"
    /\ checks' = NoChecks
    /\ overall' = "healthy"
    /\ errorMsg' = <<>>
    /\ http' = 200
    /\ hpc' = "memory"
    /\ UNCHANGED <<tvars, rvars>>

\* health.py: the memory check inside the single try block
TemplateMemory ==
    /\ handler = "template" /\ hpc = "memory"
    /\ IF "memory" \in raises
          THEN /\ errorMsg' = Message("memory")
               /\ hpc' = "except"
               /\ UNCHANGED checks
          ELSE /\ checks' = [checks EXCEPT !["memory"] = Entry(Threshold(memPct))]
               /\ hpc' = "cpu"
               /\ UNCHANGED errorMsg
    /\ UNCHANGED <<handler, raises, memPct, cpuPct, overall, http>>
    /\ UNCHANGED <<tvars, rvars>>

\* health.py: the CPU check inside the same try block
TemplateCpu ==
    /\ handler = "template" /\ hpc = "cpu"
    /\ IF "cpu" \in raises
          THEN /\ errorMsg' = Message("cpu")
               /\ hpc' = "except"
               /\ UNCHANGED checks
          ELSE /\ checks' = [checks EXCEPT !["cpu"] = Entry(Threshold(cpuPct))]
               /\ hpc' = "return"
               /\ UNCHANGED errorMsg
    /\ UNCHANGED <<handler, raises, memPct, cpuPct, overall, http>>
    /\ UNCHANGED <<tvars, rvars>>

\* health.py: return ReadinessCheck(**checks) at the end of the try block
TemplateReturn ==
    /\ handler = "template" /\ hpc = "return"
    /\ hpc' = "done"
    /\ UNCHANGED <<handler, raises, memPct, cpuPct, checks, overall, errorMsg, http>>
    /\ UNCHANGED <<tvars, rvars>>

\* health.py: except Exception as e
TemplateExcept ==
    /\ handler = "template" /\ hpc = "except"
    /\ overall' = "unhealthy"
    /\ http' = 503
    /\ hpc' = "done"
    /\ UNCHANGED <<handler, raises, memPct, cpuPct, checks, errorMsg>>
    /\ UNCHANGED <<tvars, rvars>>

\* main.py: a request arrives; checks = {}
ExampleBegin ==
    /\ hpc = "idle"
    /\ \E r \in SUBSET ExampleProbes : raises' = r
    /\ handler' = "example"
    /\ checks' = NoChecks
    /\ overall' = "none"
    /\ errorMsg' = <<>>
    /\ http' = 200
    /\ hpc' = "database"
    /\ UNCHANGED <<memPct, cpuPct>>
    /\ UNCHANGED <<tvars, rvars>>

\* main.py: the database check in its own try/except
ExampleDatabase ==
    /\ handler = "example" /\ hpc = "database"
    /\ checks' = [checks EXCEPT !["database"] =
                     IF "database" \in raises THEN Failure("database")
                                              ELSE Entry("healthy")]
    /\ hpc' = "redis"
    /\ UNCHANGED <<handler, raises, memPct, cpuPct, overall, errorMsg, http>>
    /\ UNCHANGED <<tvars, rvars>>

\* main.py: the Redis check in its own try/except
ExampleRedis ==
    /\ handler = "example" /\ hpc = "redis"
    /\ checks' = [checks EXCEPT !["redis"] =
                     IF "redis" \in raises THEN Failure("redis")
                                           ELSE Entry("healthy")]
    /\ hpc' = "return"
    /\ UNCHANGED <<handler, raises, memPct, cpuPct, overall, errorMsg, http>>
    /\ UNCHANGED <<tvars, rvars>>

\* main.py: all_healthy and the returned ReadinessCheck; the handler never
\* sets a status code, so the response keeps the route's default 200.
ExampleReturn ==
    /\ handler = "example" /\ hpc = "return"
    /\ overall' = IF AllHealthy(checks) THEN "healthy" ELSE "unhealthy"
    /\ hpc' = "done"
    /\ UNCHANGED <<handler, raises, memPct, cpuPct, checks, errorMsg, http>>
    /\ UNCHANGED <<tvars, rvars>>

\* the response has been sent; the next request may arrive
NextRequest ==
    /\ hpc = "done"
    /\ hpc' = "idle"
    /\ UNCHANGED <<handler, raises, memPct, cpuPct, checks, overall, errorMsg, http>>
    /\ UNCHANGED <<tvars, rvars>>

HNext ==
    \/ TemplateBegin \/ TemplateMemory \/ TemplateCpu
    \/ TemplateReturn \/ TemplateExcept
    \/ ExampleBegin \/ ExampleDatabase \/ ExampleRedis \/ ExampleReturn
    \/ NextRequest

(***************************************************************************)
(* Celery worker: configuration (app.conf.update) and example_task         *)
(***************************************************************************)

\* Invocations submitted to the worker, and worker losses, per run.
NumInv == 1
MaxLost == 2

Ids == 1 .. NumInv

\* task_acks_late=True (the variant: the default, acknowledge on delivery)
task_acks_early == FALSE
task_acks_late == TRUE
\* task_reject_on_worker_lost=True
task_reject_on_worker_lost == TRUE
\* task_time_limit=3600, task_soft_time_limit=3300 (the variant: a soft
\* limit set after the hard one)
task_time_limit == 3600
task_soft_time_limit_late == task_time_limit + 300
task_soft_time_limit == 3300
\* worker_concurrency=4
worker_concurrency == 4
\* @app.task(bind=True, max_retries=3)
max_retries == 3

Min(a, b) == IF a < b THEN a ELSE b
Max(a, b) == IF a > b THEN a ELSE b

RECURSIVE Pow2(_)
Pow2(n) == IF n = 0 THEN 1 ELSE 2 * Pow2(n - 1)

\* countdown=60 * (2 ** self.request.retries) (the variant: a delay that
\* grows by 60 each retry)
CountdownLinear(r) == 60 * (r + 1)
Countdown(r) == 60 * Pow2(r)

\* The exception the task logic raises in the attempt numbered r.
HandlerError(r) == <<"Exception", r>>
TimeLimitExceeded == <<"TimeLimitExceeded", task_time_limit>>
WorkerLostError == <<"WorkerLostError", 0>>
Success == <<"success", 0>>

Terminal == {"Succeeded", "Failed", "Expired"}

Running == {i \in DOMAIN status : status[i] = "Running"}

\* The variant: a hard limit counted from the soft-limit signal.
NextTimerFromSignal(i) ==
    IF softSent[i] THEN task_soft_time_limit + task_time_limit
                   ELSE Min(task_soft_time_limit, task_time_limit)

\* The elapsed time at which the worker's next timer for a running attempt
\* fires: the soft limit until it has been signalled, then the hard limit.
NextTimer(i) ==
    IF softSent[i] THEN task_time_limit
                   ELSE Min(task_soft_time_limit, task_time_limit)

RECURSIVE SumTo(_, _)
SumTo(f, n) == IF n = 0 THEN 0 ELSE f[n] + SumTo(f, n - 1)

\* Worker losses so far.
TotalLost == SumTo(lost, NumInv)

\* The failure was stored and the task_failure signal sent: on_task_failure
\* is called with the task id and the exception.
OnTaskFailure(i, exc) == hook' = [hook EXCEPT ![i] = Append(@, exc)]

\* No invocation of the set S has been submitted yet.
TaskInit(S) ==
    /\ status = [i \in S |-> "None"]
    /\ retries = [i \in S |-> 0]
    /\ elapsed = [i \in S |-> 0]
    /\ softSent = [i \in S |-> FALSE]
    /\ remaining = [i \in S |-> 0]
    /\ delays = [i \in S |-> <<>>]
    /\ msg = [i \in S |-> "none"]
    /\ runs = [i \in S |-> 0]
    /\ raised = [i \in S |-> 0]
    /\ lost = [i \in S |-> 0]
    /\ result = [i \in S |-> <<>>]
    /\ hook = [i \in S |-> <<>>]

TInit == TaskInit(Ids)

\* example_task.delay(data): the message is published to the broker
Submit(i) ==
    /\ status[i] = "None"
    /\ status' = [status EXCEPT ![i] = "Pending"]
    /\ msg' = [msg EXCEPT ![i] = "queued"]
    /\ UNCHANGED <<retries, elapsed, softSent, remaining, delays, runs,
                   raised, lost, result, hook>>
    /\ UNCHANGED <<hvars, rvars>>

\* A pool process takes the message and starts the handler. With
\* task_acks_late the message stays unacknowledged while the handler runs;
\* without it the message is acknowledged before the handler starts.
Dispatch(i) ==
    /\ \/ status[i] = "Pending"
       \/ status[i] = "Retrying" /\ remaining[i] = 0
    /\ msg[i] = "queued"
    /\ Cardinality(Running) < worker_concurrency
    /\ status' = [status EXCEPT ![i] = "Running"]
    /\ elapsed' = [elapsed EXCEPT ![i] = 0]
    /\ softSent' = [softSent EXCEPT ![i] = FALSE]
    /\ runs' = [runs EXCEPT ![i] = @ + 1]
    /\ msg' = [msg EXCEPT ![i] = IF task_acks_late THEN "unacked" ELSE "acked"]
    /\ UNCHANGED <<retries, remaining, delays, raised, lost, result, hook>>
    /\ UNCHANGED <<hvars, rvars>>

\* example_task: the task logic returns; the result is stored and the
\* message acknowledged.
Succeed(i) ==
    /\ status[i] = "Running"
    /\ status' = [status EXCEPT ![i] = "Succeeded"]
    /\ result' = [result EXCEPT ![i] = Success]
    /\ msg' = [msg EXCEPT ![i] = "acked"]
    /\ elapsed' = [elapsed EXCEPT ![i] = 0]
    /\ softSent' = [softSent EXCEPT ![i] = FALSE]
    /\ UNCHANGED <<retries, remaining, delays, runs, raised, lost, hook>>
    /\ UNCHANGED <<hvars, rvars>>

\* Task.retry: retries are left while request.retries < max_retries (the
\* variant: one retry more)
CanRetryOffByOne(r) == r <= max_retries
CanRetry(r) == r < max_retries

\* Only task_failure has a handler connected: a retry calls no hook (the
\* variant: a retried failure is signalled as a failure).
SignalRetryAsFailure(i) == OnTaskFailure(i, HandlerError(retries[i]))
SignalRetry(i) == UNCHANGED hook

\* self.retry(exc=exc, countdown=...) while retries are left: a new message
\* with retries + 1 and the eta is published, the delivered one is
\* acknowledged, the state is RETRY.
RetryLater(i) ==
    /\ status' = [status EXCEPT ![i] = "Retrying"]
    /\ retries' = [retries EXCEPT ![i] = @ + 1]
    /\ remaining' = [remaining EXCEPT ![i] = Countdown(retries[i])]
    /\ delays' = [delays EXCEPT ![i] = Append(@, Countdown(retries[i]))]
    /\ msg' = [msg EXCEPT ![i] = "queued"]
    /\ SignalRetry(i)
    /\ UNCHANGED result

\* self.retry(exc=exc, ...) with the retries used up raises exc: the task
\* fails with it, the failure is stored and signalled, the message
\* acknowledged.
GiveUp(i) ==
    /\ status' = [status EXCEPT ![i] = "Failed"]
    /\ result' = [result EXCEPT ![i] = HandlerError(retries[i])]
    /\ OnTaskFailure(i, HandlerError(retries[i]))
    /\ msg' = [msg EXCEPT ![i] = "acked"]
    /\ UNCHANGED <<retries, remaining, delays>>

\* example_task: the task logic raises; except Exception as exc: self.retry
Fail(i) ==
    /\ status[i] = "Running"
    /\ raised' = [raised EXCEPT ![i] = @ + 1]
    /\ IF CanRetry(retries[i]) THEN RetryLater(i) ELSE GiveUp(i)
    /\ elapsed' = [elapsed EXCEPT ![i] = 0]
    /\ softSent' = [softSent EXCEPT ![i] = FALSE]
    /\ UNCHANGED <<runs, lost>>
    /\ UNCHANGED <<hvars, rvars>>

\* task_soft_time_limit: the running handler is signalled; nothing else
\* is done to it.
SoftTimeout(i) ==
    /\ status[i] = "Running"
    /\ ~softSent[i]
    /\ elapsed[i] >= task_soft_time_limit
    /\ softSent' = [softSent EXCEPT ![i] = TRUE]
    /\ UNCHANGED <<status, retries, elapsed, remaining, delays, msg, runs,
                   raised, lost, result, hook>>
    /\ UNCHANGED <<hvars, rvars>>

\* task_time_limit: the pool process is killed, the failure stored and
\* signalled, the message acknowledged.
HardTimeout(i) ==
    /\ status[i] = "Running"
    /\ elapsed[i] >= task_time_limit
    /\ status' = [status EXCEPT ![i] = "Expired"]
    /\ result' = [result EXCEPT ![i] = TimeLimitExceeded]
    /\ OnTaskFailure(i, TimeLimitExceeded)
    /\ msg' = [msg EXCEPT ![i] = "acked"]
    /\ UNCHANGED <<retries, elapsed, softSent, remaining, delays, runs,
                   raised, lost>>
    /\ UNCHANGED <<hvars, rvars>>

\* The pool process running the handler is lost. With task_acks_late and
\* task_reject_on_worker_lost the unacknowledged message is rejected and
\* requeued as it was delivered; otherwise the invocation is marked failed.
WorkerLost(i) ==
    /\ status[i] = "Running"
    /\ TotalLost < MaxLost
    /\ lost' = [lost EXCEPT ![i] = @ + 1]
    /\ IF task_acks_late /\ task_reject_on_worker_lost
          THEN /\ status' = [status EXCEPT ![i] = "Pending"]
               /\ msg' = [msg EXCEPT ![i] = "queued"]
               /\ UNCHANGED <<result, hook>>
          ELSE /\ status' = [status EXCEPT ![i] = "Failed"]
               /\ result' = [result EXCEPT ![i] = WorkerLostError]
               /\ OnTaskFailure(i, WorkerLostError)
               /\ msg' = [msg EXCEPT ![i] = "acked"]
    /\ elapsed' = [elapsed EXCEPT ![i] = 0]
    /\ softSent' = [softSent EXCEPT ![i] = FALSE]
    /\ UNCHANGED <<retries, remaining, delays, runs, raised>>
    /\ UNCHANGED <<hvars, rvars>>

\* The time until each pending timer of the worker fires: the eta of a
\* retry message, the next time limit of a running attempt.
Timers ==
    {remaining[i] : i \in {j \in Ids : status[j] = "Retrying" /\ remaining[j] > 0}}
    \cup {NextTimer(i) - elapsed[i] : i \in {j \in Ids : status[j] = "Running"}}

Earliest(S) == CHOOSE d \in S : \A e \in S : d <= e

\* Time passes until the earliest pending timer is due. Handlers return,
\* raise or are lost before or after it.
Tick ==
    /\ Timers # {}
    /\ Earliest(Timers) > 0
    /\ LET d == Earliest(Timers) IN
          /\ elapsed' = [i \in Ids |->
                IF status[i] = "Running" THEN elapsed[i] + d ELSE elapsed[i]]
          /\ remaining' = [i \in Ids |->
                IF status[i] = "Retrying" THEN Max(0, remaining[i] - d)
                                          ELSE remaining[i]]
    /\ UNCHANGED <<status, retries, softSent, delays, msg, runs, raised, lost,
                   result, hook>>
    /\ UNCHANGED <<hvars, rvars>>

RInit ==
    /\ now = 0
    /\ tokens = 0
    /\ startedAt = [i \in Ids |-> -1]
    /\ submittedAt = -1

Init == HInit /\ TInit /\ RInit

SpecHealth == Init /\ [][HNext]_vars

Next ==
    \/ \E i \in Ids : Submit(i)
    \/ \E i \in Ids : Dispatch(i)
    \/ \E i \in Ids : Succeed(i)
    \/ \E i \in Ids : Fail(i)
    \/ \E i \in Ids : SoftTimeout(i)
    \/ \E i \in Ids : HardTimeout(i)
    \/ \E i \in Ids : WorkerLost(i)
    \/ Tick

Spec == Init /\ [][Next]_vars

\* The worker's timers fire and a free pool process takes a due message.
Fairness ==
    /\ WF_vars(Tick)
    /\ \A i \in Ids : /\ WF_vars(Dispatch(i))
                       /\ WF_vars(SoftTimeout(i))
                       /\ WF_vars(HardTimeout(i))

FairSpec == Spec /\ Fairness

(***************************************************************************)
(* Celery worker: rate_limited_task, rate_limit="10/m"                     *)
(***************************************************************************)

\* Invocations submitted in one batch, and the last second of the clock.
NumRate == 12
MaxTime == 80

RIds == 1 .. NumRate

\* rate_limit="10/m": ten tokens per sixty seconds
RateLimit == 10
RatePeriod == 60

\* The bucket holds one token; tokens are counted in units of 1/RatePeriod,
\* of which RateLimit are added each second (the variant: a bucket that
\* holds RateLimit tokens).
BucketSizeBurst == RateLimit * RatePeriod
BucketSize == RatePeriod

Pending == {i \in DOMAIN status : status[i] = "Pending"}

First(S) == CHOOSE i \in S : \A j \in S : i <= j

RateInit ==
    /\ TaskInit(RIds)
    /\ now = 0
    /\ tokens = BucketSize
    /\ startedAt = [i \in RIds |-> -1]
    /\ submittedAt = -1

\* rate_limited_task.delay(data), n times at once
SubmitBatch(n) ==
    /\ submittedAt = -1
    /\ submittedAt' = now
    /\ status' = [i \in RIds |-> IF i <= n THEN "Pending" ELSE "None"]
    /\ msg' = [i \in RIds |-> IF i <= n THEN "queued" ELSE "none"]
    /\ UNCHANGED <<retries, elapsed, softSent, remaining, delays, runs,
                   raised, lost, result, hook>>
    /\ UNCHANGED <<now, tokens, startedAt>>
    /\ UNCHANGED hvars

\* The worker may start the oldest held invocation: the bucket holds a
\* whole token and a pool process is free.
CanDispatch ==
    /\ Pending # {}
    /\ tokens >= RatePeriod
    /\ Cardinality(Running) < worker_concurrency

\* The oldest held invocation takes a token and starts.
RateDispatch ==
    /\ CanDispatch
    /\ LET i == First(Pending) IN
          /\ status' = [status EXCEPT ![i] = "Running"]
          /\ runs' = [runs EXCEPT ![i] = @ + 1]
          /\ msg' = [msg EXCEPT ![i] = IF task_acks_late THEN "unacked" ELSE "acked"]
          /\ startedAt' = [startedAt EXCEPT ![i] = now]
    /\ tokens' = tokens - RatePeriod
    /\ UNCHANGED <<retries, elapsed, softSent, remaining, delays, raised, lost,
                   result, hook>>
    /\ UNCHANGED <<now, submittedAt>>
    /\ UNCHANGED hvars

\* rate_limited_task: return {"status": "processed", "data": data}
RateReturn == \E i \in RIds : Succeed(i)

\* A second passes and the bucket is refilled. The worker starts an
\* invocation as soon as it may, and the handler returns at once.
RateTick ==
    /\ now < MaxTime
    /\ ~CanDispatch
    /\ Running = {}
    /\ now' = now + 1
    /\ tokens' = Min(BucketSize, tokens + RateLimit)
    /\ UNCHANGED <<startedAt, submittedAt>>
    /\ UNCHANGED <<hvars, tvars>>

RateNext ==
    \/ \E n \in RIds : SubmitBatch(n)
    \/ RateDispatch
    \/ RateReturn
    \/ RateTick

RateStart == HInit /\ RateInit

SpecRate == RateStart /\ [][RateNext]_vars

(***************************************************************************)
(* Properties                                                              *)
(***************************************************************************)

Worst(S) ==
    IF "unhealthy" \in S THEN "unhealthy"
    ELSE IF "warning" \in S THEN "warning"
    ELSE "healthy"

\* The probes of the handler serving the request.
HandlerProbes == IF handler = "template" THEN TemplateProbes ELSE ExampleProbes

\* The status of a probe in this request: Unhealthy when it raises, Warning
\* when the utilisation it measures is at or over the threshold.
ProbeStatus(p) ==
    IF p \in raises THEN "unhealthy"
    ELSE IF p = "memory" THEN Threshold(memPct)
    ELSE IF p = "cpu" THEN Threshold(cpuPct)
    ELSE "healthy"

\* C1: the overall status of every readiness report is the worst of the
\* statuses of the handler's probes: Unhealthy if any is Unhealthy, else
\* Warning if any is Warning, else Healthy.
C1_WorstOfAll ==
    hpc = "done" =>
        overall = Worst({ProbeStatus(p) : p \in HandlerProbes})

\* C2: every response carries 503 when the report's overall status is
\* Unhealthy and 200 when it is Healthy or Warning.
C2_StatusCode ==
    hpc = "done" =>
        /\ overall = "unhealthy" => http = 503
        /\ overall \in {"healthy", "warning"} => http = 200

\* C3: every probe that raises is recorded as Unhealthy with its failure
\* message, and every other probe of the handler still has an entry in the
\* report.
C3_FailureContained ==
    hpc = "done" =>
        \A p \in HandlerProbes :
            /\ p \in raises => checks[p] = Failure(p)
            /\ p \notin raises => checks[p] # Absent

\* C4: the attempt count (request.retries) never exceeds max_retries, the
\* handler never raises more than max_retries + 1 times, an invocation is
\* Failed only after exactly max_retries + 1 raising executions (every
\* other execution was lost with its worker), it then carries the last
\* error, and a Failed invocation is never executed again.
C4_BoundedAttempts ==
    /\ [](\A i \in Ids :
            /\ retries[i] <= max_retries
            /\ raised[i] <= max_retries + 1
            /\ runs[i] <= max_retries + 1 + lost[i]
            /\ status[i] = "Failed" =>
                  /\ raised[i] = max_retries + 1
                  /\ runs[i] = max_retries + 1 + lost[i]
                  /\ result[i] = HandlerError(max_retries))
    /\ [][\A i \in Ids : status[i] = "Failed" =>
            /\ status'[i] = "Failed"
            /\ runs'[i] = runs[i]
            /\ result'[i] = result[i]]_vars

\* C4 witness: an invocation has Failed after four executions, none lost.
C4_Witness ==
    \E i \in Ids : status[i] = "Failed" /\ runs[i] = 4 /\ lost[i] = 0

\* C5: the k-th retry (k from 0) is scheduled 60 * 2^k seconds after the
\* failure that triggered it, with nothing added: 60, 120, 240; a Retrying
\* invocation enters that state with the whole delay still to run, and is
\* started again only once it has run out.
C5_Backoff ==
    /\ [](\A i \in Ids :
            /\ Len(delays[i]) = retries[i]
            /\ \A k \in 1 .. Len(delays[i]) : delays[i][k] = 60 * (2 ^ (k - 1))
            /\ status[i] = "Failed" => delays[i] = <<60, 120, 240>>
            /\ status[i] = "Retrying" => remaining[i] <= delays[i][retries[i]])
    /\ [][\A i \in Ids :
            /\ (status[i] # "Retrying" /\ status'[i] = "Retrying") =>
                  /\ remaining'[i] = delays'[i][Len(delays'[i])]
                  /\ remaining'[i] > 0
            /\ (status[i] = "Retrying" /\ status'[i] # "Retrying") =>
                  remaining[i] = 0]_vars

\* C5 witness: the third retry is waiting out its 240 seconds.
C5_Witness ==
    \E i \in Ids :
        status[i] = "Retrying" /\ retries[i] = 3 /\ remaining[i] = 240

StartedIn(w) ==
    {i \in RIds : startedAt[i] >= w /\ startedAt[i] < w + RatePeriod}

\* C7: no window of a minute holds more than ten dispatches; of a batch
\* of ten or more exactly ten are dispatched in the minute from the
\* submission and the others only after it; an invocation that is held is
\* Pending, has consumed no retry and counts as no failure.
C7_RateLimit ==
    /\ \A j \in RIds :
          startedAt[j] >= 0 => Cardinality(StartedIn(startedAt[j])) <= 10
    /\ submittedAt >= 0 =>
          /\ Cardinality(StartedIn(submittedAt)) <= 10
          /\ (now >= submittedAt + 60 /\ status[10] # "None") =>
                Cardinality(StartedIn(submittedAt)) = 10
          /\ \A i \in RIds :
                (i > 10 /\ startedAt[i] >= 0) => startedAt[i] >= submittedAt + 60
    /\ \A i \in RIds :
          /\ status[i] \in {"None", "Pending", "Running", "Succeeded"}
          /\ (status[i] # "None" /\ startedAt[i] < 0) => status[i] = "Pending"
          /\ status[i] = "Pending" =>
                /\ retries[i] = 0
                /\ raised[i] = 0
                /\ runs[i] = 0
                /\ hook[i] = <<>>
                /\ result[i] = <<>>
                /\ msg[i] = "queued"

\* C7 witness: of a batch of twelve ten ran in the first minute, the
\* eleventh has been dispatched after it and the twelfth is still held.
C7_Witness ==
    /\ submittedAt >= 0
    /\ Cardinality(StartedIn(submittedAt)) = 10
    /\ startedAt[11] >= submittedAt + 60
    /\ status[12] = "Pending"

\* C8: no attempt runs beyond the hard time limit of 3600 seconds: at the
\* limit the invocation becomes Expired, and an Expired invocation stays
\* Expired and is never executed again.
C8_HardLimit ==
    /\ [](\A i \in Ids :
            /\ status[i] = "Running" => elapsed[i] <= 3600
            /\ status[i] = "Expired" =>
                  /\ elapsed[i] = 3600
                  /\ result[i] = TimeLimitExceeded)
    /\ [][\A i \in Ids :
            /\ (status[i] # "Expired" /\ status'[i] = "Expired") =>
                  (status[i] = "Running" /\ elapsed[i] >= 3600)
            /\ status[i] = "Expired" =>
                  /\ status'[i] = "Expired"
                  /\ runs'[i] = runs[i]
                  /\ retries'[i] = retries[i]
                  /\ result'[i] = result[i]]_vars

\* C8 witness: an attempt has been cancelled at the hard limit.
C8_Witness ==
    \E i \in Ids : status[i] = "Expired" /\ elapsed[i] = 3600

\* C9: on_task_failure has been called exactly once, with the invocation's
\* error, for every invocation that is Failed or Expired, and never for
\* any other invocation: not for one that Succeeded, not for a failed
\* attempt that is retried.
C9_FailureHook ==
    \A i \in Ids :
        /\ status[i] \in {"Failed", "Expired"} => hook[i] = <<result[i]>>
        /\ status[i] \notin {"Failed", "Expired"} => hook[i] = <<>>

\* C9 witness: an invocation Failed after three retries, with one call.
C9_Witness ==
    \E i \in Ids :
        status[i] = "Failed" /\ retries[i] = 3 /\ Len(hook[i]) = 1

====
